---------------------------- MODULE Spec2Model ----------------------------
(***************************************************************************)
(* Model of alt_tool.py, the Accelerated Life Testing calculator.          *)
(*                                                                         *)
(* The script is executed top to bottom on every rerun: it reads the       *)
(* fourteen number_input widgets, computes the four acceleration factors   *)
(* and the four point test times, shows the summary table, and then loops  *)
(* over the four models showing an exponential and a Weibull table each.   *)
(* A Python exception stops the run where it is raised; what was shown     *)
(* before stays shown.                                                     *)
(*                                                                         *)
(* Python floats are modelled as decimal floating-point numbers with a     *)
(* four-digit mantissa and the exponent range of an IEEE double; every     *)
(* arithmetic operation rounds its exact result to that format            *)
(* (round-half-even), and raises the exception Python raises.              *)
(***************************************************************************)
EXTENDS Integers, Sequences, FiniteSets, TLC

(***************************************************************************)
(* Float values.  A value is a record [k, m, e]:                           *)
(*   k = "fin"  : the number m * 10^e, with m = 0 (and e = 0) or           *)
(*                1000 <= |m| <= 9999                                      *)
(*   k = "inf"  : signed infinity, m = 1 or -1                             *)
(*   k = "nan"  : not a number                                             *)
(*   k = "cplx" : a complex number (negative base to a fractional power)   *)
(*   k = the name of a Python exception: the evaluation raised it          *)
(***************************************************************************)
Exceptions == {"ZeroDivisionError", "ValueError", "OverflowError", "TypeError"}

Fin(m, e) == [k |-> "fin", m |-> m, e |-> e]
Zero == Fin(0, 0)
Inf(s) == [k |-> "inf", m |-> s, e |-> 0]
NaN == [k |-> "nan", m |-> 0, e |-> 0]
Cplx == [k |-> "cplx", m |-> 0, e |-> 0]
Raise(x) == [k |-> x, m |-> 0, e |-> 0]

IsErr(a) == a.k \in Exceptions
IsFin(a) == a.k = "fin"

Abs(x) == IF x < 0 THEN -x ELSE x
Sgn(x) == IF x < 0 THEN -1 ELSE IF x > 0 THEN 1 ELSE 0

RECURSIVE Pow10(_)
Pow10(n) == IF n <= 0 THEN 1 ELSE 10 * Pow10(n - 1)

RECURSIVE NDigits(_)
NDigits(a) == IF a < 10 THEN 1 ELSE 1 + NDigits(a \div 10)

\* The exponent range of a double: above 10^308 a result overflows to
\* infinity, below 10^-324 it underflows to zero.
InRange(m, e) ==
    IF e + 3 > 308 THEN Inf(Sgn(m))
    ELSE IF e + 3 < -324 THEN Zero
    ELSE Fin(m, e)

\* Rounding of the exact value m * 10^e (plus a positive remainder when
\* sticky) to four significant digits, round-half-even.
RoundUp(q, r, p, sticky) ==
    IF 2 * r > p \/ (2 * r = p /\ (sticky \/ q % 2 = 1)) THEN 1 ELSE 0
NormQ(s, q, e) ==
    IF q = 10000 THEN InRange(s * 1000, e + 1) ELSE InRange(s * q, e)
NormP(m, e, sticky, p) ==
    NormQ(Sgn(m),
          Abs(m) \div p + RoundUp(Abs(m) \div p, Abs(m) % p, p, sticky), e)
NormD(m, e, sticky, d) ==
    IF d <= 4 THEN InRange(m * Pow10(4 - d), e - (4 - d))
    ELSE NormP(m, e + (d - 4), sticky, Pow10(d - 4))
Norm(m, e, sticky) ==
    IF m = 0 THEN Zero ELSE NormD(m, e, sticky, NDigits(Abs(m)))

\* A literal or a widget value: the decimal m * 10^e as a float.
F(m, e) == Norm(m, e, FALSE)

FNeg(a) ==
    IF IsErr(a) THEN a
    ELSE IF a.k \in {"fin", "inf"} THEN [a EXCEPT !.m = -a.m]
    ELSE a

\* a + b
FAdd(a, b) ==
    IF IsErr(a) THEN a
    ELSE IF IsErr(b) THEN b
    ELSE IF a.k = "cplx" \/ b.k = "cplx" THEN Cplx
    ELSE IF a.k = "nan" \/ b.k = "nan" THEN NaN
    ELSE IF a.k = "inf"
         THEN IF b.k = "inf" /\ b.m # a.m THEN NaN ELSE a
    ELSE IF b.k = "inf" THEN b
    ELSE IF a.m = 0 THEN b
    ELSE IF b.m = 0 THEN a
    ELSE LET hi == IF a.e >= b.e THEN a ELSE b
             lo == IF a.e >= b.e THEN b ELSE a
             d  == hi.e - lo.e
         IN  IF d > 5 THEN hi
             ELSE Norm(hi.m * Pow10(d) + lo.m, lo.e, FALSE)

\* a - b
FSub(a, b) == FAdd(a, FNeg(b))

\* a * b : an overflow gives infinity, no exception
FMul(a, b) ==
    IF IsErr(a) THEN a
    ELSE IF IsErr(b) THEN b
    ELSE IF a.k = "cplx" \/ b.k = "cplx" THEN Cplx
    ELSE IF a.k = "nan" \/ b.k = "nan" THEN NaN
    ELSE IF a.k = "inf" \/ b.k = "inf"
         THEN IF a.m = 0 \/ b.m = 0 THEN NaN ELSE Inf(Sgn(a.m) * Sgn(b.m))
    ELSE Norm(a.m * b.m, a.e + b.e, FALSE)

\* a / b : a zero divisor raises ZeroDivisionError
FDiv(a, b) ==
    IF IsErr(a) THEN a
    ELSE IF IsErr(b) THEN b
    ELSE IF b.k = "fin" /\ b.m = 0 THEN Raise("ZeroDivisionError")
    ELSE IF a.k = "cplx" \/ b.k = "cplx" THEN Cplx
    ELSE IF a.k = "nan" \/ b.k = "nan" THEN NaN
    ELSE IF a.k = "inf"
         THEN IF b.k = "inf" THEN NaN ELSE Inf(a.m * Sgn(b.m))
    ELSE IF b.k = "inf" THEN Zero
    ELSE IF a.m = 0 THEN Zero
    ELSE LET num == Abs(a.m) * 100000
             den == Abs(b.m)
         IN  Norm(Sgn(a.m) * Sgn(b.m) * (num \div den), a.e - b.e - 5,
                  num % den # 0)

\* a < b, a = b on numbers (false when either is not a number)
IsNum(a) == a.k \in {"fin", "inf"}
FSign(a) == IF a.k \in {"fin", "inf"} THEN Sgn(a.m) ELSE 0
FLt(a, b) == IsNum(a) /\ IsNum(b) /\ a # b /\
    IF a.k = "inf" THEN a.m < 0
    ELSE IF b.k = "inf" THEN b.m > 0
    ELSE FSign(FSub(a, b)) < 0
FPos(a) == IsNum(a) /\ FSign(a) > 0

One == Fin(1000, -3)

\* Whether the finite value a is an integer of magnitude at most 3, and
\* whether it is integral at all; IntVal is the integer when IsSmallInt.
IsIntegral(a) == a.m = 0 \/ a.e >= 0 \/ (a.e >= -3 /\ a.m % Pow10(-a.e) = 0)
IsSmallInt(a) == a.m = 0 \/ (a.e = -3 /\ a.m \in {1000, 2000, 3000, -1000, -2000, -3000})
IntVal(a) == a.m \div 1000
IsOdd(a) == a.m # 0 /\ a.e >= -3 /\ a.e <= 0 /\ a.m % Pow10(-a.e) = 0
            /\ (Abs(a.m) \div Pow10(-a.e)) % 2 = 1

\* math.log(a): the natural logarithm.  The argument is w * 2^j * 10^E with
\* w in [0.75, 1.5); ln w is the series of 2 * atanh((w - 1) / (w + 1)), in
\* fixed point with four decimals.  A non-positive argument raises
\* ValueError.
RECURSIVE AtanhSeries(_, _, _)
AtanhSeries(t, z2, n) ==
    IF n > 7 THEN 0
    ELSE t \div n + AtanhSeries((t * z2) \div 10000, z2, n + 2)
LogSum(s, neg, j, E) ==
    (IF neg THEN -s ELSE s) + j * 6931 + E * 23026
    - Sgn(E) * ((Abs(E) * 149) \div 1000)
LogZ(z, neg, j, E) ==
    Norm(LogSum(2 * AtanhSeries(z, (z * z) \div 10000, 1), neg, j, E), -4, FALSE)
LogJ(w, E, j, c) == LogZ((Abs(w - c) * 10000) \div (w + c), w < c, j, E)
LogW(w, E) ==
    IF w < 15000 THEN LogJ(w, E, 0, 10000)
    ELSE IF w < 30000 THEN LogJ(w, E, 1, 20000)
    ELSE IF w < 60000 THEN LogJ(w, E, 2, 40000)
    ELSE LogJ(w, E, 3, 80000)
FLog(a) ==
    IF IsErr(a) THEN a
    ELSE IF a.k = "cplx" THEN Raise("TypeError")
    ELSE IF a.k = "nan" THEN NaN
    ELSE IF a.k = "inf" THEN IF a.m > 0 THEN a ELSE Raise("ValueError")
    ELSE IF a.m <= 0 THEN Raise("ValueError")
    ELSE IF a.m >= 7500 THEN LogW(a.m, a.e + 4)
    ELSE LogW(10 * a.m, a.e + 3)

\* math.exp(a): e^a = 10^q * e^r with r in [0, ln 10); e^(r/4) by its
\* Taylor series (in fixed point, scale 40000) and two squarings.  A result
\* above the double range raises OverflowError; one below it is 0.0.
RECURSIVE ExpSeries(_, _)
ExpSeries(u, n) ==
    IF n > 8 THEN 40000
    ELSE 40000 + (u * ExpSeries(u, n + 1)) \div (n * 40000)
Sq(v) == v * v
ExpSquare(s, q) ==
    Norm((Sq(((Sq((s + 1) \div 2) + 10000) \div 20000 + 1) \div 2) + 5000)
            \div 10000,
         q - 4, FALSE)
ExpR(r, q) == ExpSquare(ExpSeries(IF r < 0 THEN 0 ELSE r, 1), q)
ExpQ(xf, q) ==
    ExpR(xf - q * 23026 + Sgn(q) * ((Abs(q) * 149) \div 1000), q)
FloorDiv(a, b) ==
    IF a >= 0 THEN a \div b
    ELSE IF (-a) % b = 0 THEN -((-a) \div b) ELSE -((-a) \div b) - 1
ExpFixed(xf) ==
    IF xf > 7097800 THEN Raise("OverflowError")
    ELSE IF xf < -7451000 THEN Zero
    ELSE ExpQ(xf, FloorDiv(xf, 23026))
FExp(a) ==
    IF IsErr(a) THEN a
    ELSE IF a.k = "cplx" THEN Raise("TypeError")
    ELSE IF a.k = "nan" THEN NaN
    ELSE IF a.k = "inf" THEN IF a.m > 0 THEN a ELSE Zero
    ELSE IF a.m = 0 THEN One
    ELSE IF a.e >= 0 THEN IF a.m > 0 THEN Raise("OverflowError") ELSE Zero
    ELSE IF a.e >= -4 THEN ExpFixed(a.m * Pow10(a.e + 4))
    ELSE IF a.e < -12 THEN One
    ELSE ExpFixed(Sgn(a.m) * (Abs(a.m) \div Pow10(-4 - a.e)))

\* a ** n for an integer n of magnitude at most 3: repeated multiplication
RECURSIVE IntPow(_, _)
IntPow(a, n) ==
    IF n = 0 THEN One
    ELSE IF n < 0 THEN FDiv(One, IntPow(a, -n))
    ELSE IF n = 1 THEN a
    ELSE FMul(a, IntPow(a, n - 1))

\* float pow raises OverflowError where the result leaves the double range
PowRange(r) == IF r.k = "inf" THEN Raise("OverflowError") ELSE r

\* a ** b for a positive finite a and a finite non-zero b
PosPow(a, b) ==
    IF IsSmallInt(b) THEN PowRange(IntPow(a, IntVal(b)))
    ELSE PowRange(FExp(FMul(b, FLog(a))))

\* a ** b on floats
FPow(a, b) ==
    IF IsErr(a) THEN a
    ELSE IF IsErr(b) THEN b
    ELSE IF a.k = "cplx" \/ b.k = "cplx" THEN Cplx
    ELSE IF b.k = "fin" /\ b.m = 0 THEN One
    ELSE IF a = One THEN One
    ELSE IF a.k = "nan" \/ b.k = "nan" THEN NaN
    ELSE IF a.k = "fin" /\ a.m = 0
         THEN IF b.m < 0 THEN Raise("ZeroDivisionError") ELSE Zero
    ELSE IF b.k = "inf"
         THEN IF a.k = "inf" \/ a.e > -3 \/ Abs(a.m) > 1000
              THEN IF b.m > 0 THEN Inf(1) ELSE Zero
              ELSE IF a = FNeg(One) THEN One
              ELSE IF b.m > 0 THEN Zero ELSE Inf(1)
    ELSE IF a.k = "inf"
         THEN IF b.m < 0 THEN Zero
              ELSE IF a.m < 0 /\ IsOdd(b) THEN Inf(-1) ELSE Inf(1)
    ELSE IF a.m > 0 THEN PosPow(a, b)
    ELSE IF ~IsIntegral(b) THEN Cplx
    ELSE IF IsOdd(b) THEN FNeg(PosPow(FNeg(a), b))
    ELSE PosPow(FNeg(a), b)

\* math.ceil(a): the least integer not below a
FCeil(a) ==
    IF IsErr(a) THEN a
    ELSE IF a.k = "cplx" THEN Raise("TypeError")
    ELSE IF a.k = "nan" THEN Raise("ValueError")
    ELSE IF a.k = "inf" THEN Raise("OverflowError")
    ELSE IF a.m = 0 \/ a.e >= 0 THEN a
    ELSE IF a.e <= -4 THEN IF a.m > 0 THEN One ELSE Zero
    ELSE LET p == Pow10(-a.e)
             c == IF a.m > 0 THEN (a.m + p - 1) \div p ELSE -(Abs(a.m) \div p)
         IN  Norm(c, 0, FALSE)

\* round(a, 4): a rounded to four decimal places, round-half-even
FRound4(a) ==
    IF IsErr(a) THEN a
    ELSE IF a.k = "cplx" THEN Raise("TypeError")
    ELSE IF a.k # "fin" THEN a
    ELSE IF a.m = 0 \/ a.e >= -4 THEN a
    ELSE IF a.e < -8 THEN Zero
    ELSE LET p == Pow10(-4 - a.e)
             q == Abs(a.m) \div p
             r == Abs(a.m) % p
             up == 2 * r > p \/ (2 * r = p /\ q % 2 = 1)
         IN  Norm(Sgn(a.m) * (IF up THEN q + 1 ELSE q), -4, FALSE)

(***************************************************************************)
(* The program.                                                            *)
(***************************************************************************)

\* Bound of the model: how many times the user edits a widget (each edit
\* reruns the script).
MaxRuns == 2

\* k = 8.617e-5, the Boltzmann constant (eV/K)
k == F(8617, -8)

\* N_range = list(range(1, 31))
N_range == 1 .. 30

\* The four models, in the order of the summary table and of the tabs
ModelNames == <<"Arrhenius", "Peck", "Eyring", "Eyring + Derating">>

\* The widgets' default values (value=...)
Defaults ==
    [T_use_C |-> F(25, 0), RH_use |-> F(50, 0), Ea |-> F(9, -1),
     confidence |-> F(9, -1), reliability |-> F(9, -1), beta |-> F(1, 0),
     T_stress_C |-> F(85, 0), RH_stress |-> F(85, 0), n |-> F(3, 0),
     m |-> F(2, 0), D_uv |-> F(8, -1), D_tc |-> F(9, -1),
     D_mech |-> F(95, -2), L |-> F(8760, 1)]

\* The values a user types into one widget.  The widgets of confidence and
\* reliability have min_value=0.7 and max_value=0.99; the others have no
\* limits.  L is an integer widget.
Edits ==
    ({"T_use_C"} \X {F(-27315, -2), F(-2731, -1)})
    \cup ({"T_stress_C"} \X {F(-2731, -1)})
    \cup ({"RH_use"} \X {F(0, 0), F(-50, 0)})
    \cup ({"n"} \X {F(0, 0), F(-1, 0), F(25, -1), F(2000, 0)})
    \cup ({"m"} \X {F(-2, 0)})
    \cup ({"D_uv"} \X {F(0, 0), F(-8, -1)})
    \cup ({"confidence"} \X {F(99, -2)})
    \cup ({"reliability"} \X {F(99, -2)})
    \cup ({"beta"} \X {F(1, 0), F(0, 0), F(2, 0), F(1, -3)})
    \cup ({"L"} \X {F(1, 0)})

\* The arguments the two test-time functions are called with, one by one:
\* AF, and the globals L, confidence, reliability and beta they read.
FnInputs ==
    [AF : {F(2547, -2), F(5, -1), F(0, 0), F(-4919, -3)},
     L : {F(8760, 1)},
     confidence : {F(9, -1), F(7, -1), F(99, -2), F(1, 0), F(0, 0),
                   F(15, -1), F(-5, -1)},
     reliability : {F(9, -1), F(3679, -4), F(1, -1), F(1, 0), F(0, 0),
                    F(15, -1), F(-5, -1)},
     beta : {F(1, 0), F(2, 0), F(5, -1), F(-1, 0), F(0, 0)}]

VARIABLES
    params,     \* the widgets' values: the ParameterSet of the current run
    pc,         \* where the run is: "af", "time", "summary", "exp",
                \* "weibull", "done" or "error"
    AF,         \* <<AF_arrhenius, AF_peck, AF_eyring, AF_eyring_total>>
    T,          \* <<T_arrhenius, T_peck, T_eyring, T_eyring_total>>
    models_df,  \* the summary table shown by st.dataframe, <<>> before
    tables,     \* the sample-size tables shown so far, in order
    i,          \* the index of the model the loop is at
    err,        \* the exception that stopped the run, or "none"
    runs,       \* how many reruns the user has caused
    first,      \* what the first run showed, once it is done
    fnArgs,     \* the arguments of the test-time functions called alone
    expCol,     \* [test_time_exponential(n, AF) for n in N_range], <<>> before
    weiCol      \* [test_time_weibull(n, AF) for n in N_range], <<>> before

fnvars == <<fnArgs, expCol, weiCol>>
vars == <<params, pc, AF, T, models_df, tables, i, err, runs, first, fnvars>>

\* T_use_K = T_use_C + 273.15
T_use_K(p) == FAdd(p.T_use_C, F(27315, -2))
\* T_stress_K = T_stress_C + 273.15
T_stress_K(p) == FAdd(p.T_stress_C, F(27315, -2))

\* math.exp((Ea/k) * ((1/T_use_K) - (1/T_stress_K)))
ArrheniusTerm(p) ==
    FExp(FMul(FDiv(p.Ea, k),
              FSub(FDiv(One, T_use_K(p)), FDiv(One, T_stress_K(p)))))

AF_arrhenius(p) == ArrheniusTerm(p)
AF_peck(p) ==
    FMul(FPow(FDiv(p.RH_use, p.RH_stress), FNeg(p.n)), ArrheniusTerm(p))

\* A faulty variant of AF_eyring: the humidity ratio inverted
AF_eyring_inverted(p) ==
    FMul(FPow(FDiv(p.RH_use, p.RH_stress), p.m), ArrheniusTerm(p))
AF_eyring(p) ==
    FMul(FPow(FDiv(p.RH_stress, p.RH_use), p.m), ArrheniusTerm(p))
AF_eyring_total(af_eyring, p) ==
    FMul(FMul(FMul(af_eyring, p.D_uv), p.D_tc), p.D_mech)

\* The first exception of a sequence of evaluations, "none" if there is none
RECURSIVE FirstErr(_)
FirstErr(s) ==
    IF s = <<>> THEN "none"
    ELSE IF IsErr(Head(s)) THEN Head(s).k
    ELSE FirstErr(Tail(s))

Stop(e) ==
    /\ pc' = "error"
    /\ err' = e

\* --- AF Calculations ---
\* The four assignments are executed in order; the first exception ends
\* the run.
SetAF(a1, a2, a3, a4) ==
    IF FirstErr(<<a1, a2, a3, a4>>) # "none"
    THEN Stop(FirstErr(<<a1, a2, a3, a4>>)) /\ UNCHANGED AF
    ELSE /\ AF' = <<a1, a2, a3, a4>>
         /\ pc' = "time"
         /\ UNCHANGED err
WithEyring(a1, a2, a3, p) == SetAF(a1, a2, a3, AF_eyring_total(a3, p))
ComputeAF ==
    /\ pc = "af"
    /\ WithEyring(AF_arrhenius(params), AF_peck(params), AF_eyring(params),
                  params)
    /\ UNCHANGED <<params, T, models_df, tables, i, runs, first, fnvars>>

\* --- Test Time ---  T = L / AF
ComputeTestTime ==
    /\ pc = "time"
    /\ LET t == [j \in 1 .. 4 |-> FDiv(params.L, AF[j])]
           e == FirstErr(t)
       IN  IF e # "none"
           THEN Stop(e) /\ UNCHANGED T
           ELSE /\ T' = t
                /\ pc' = "summary"
                /\ UNCHANGED err
    /\ UNCHANGED <<params, AF, models_df, tables, i, runs, first, fnvars>>

Hours24 == F(24, 0)

\* models_df = pd.DataFrame({...}); st.dataframe(models_df)
ShowSummary ==
    /\ pc = "summary"
    /\ LET days == [j \in 1 .. 4 |-> FDiv(T[j], Hours24)]
           ceil == [j \in 1 .. 4 |-> FCeil(days[j])]
           e    == FirstErr(days \o ceil)
       IN  IF e # "none"
           THEN Stop(e) /\ UNCHANGED <<models_df, i>>
           ELSE /\ models_df' =
                       [j \in 1 .. 4 |->
                           [Model |-> ModelNames[j], AF |-> AF[j],
                            hr |-> T[j], days |-> days[j],
                            rounded_days |-> ceil[j]]]
                /\ pc' = "exp"
                /\ i' = 1
                /\ UNCHANGED err
    /\ UNCHANGED <<params, AF, T, tables, runs, first, fnvars>>

\* Faulty variants of test_time_exponential: the division by math.log(reliability)
\* left out; the sample size N left out.
test_time_exponential_no_log_r(N, af, L, confidence, reliability) ==
    FMul(FDiv(L, FMul(F(N, 0), af)), FLog(FSub(One, confidence)))
test_time_exponential_no_N(N, af, L, confidence, reliability) ==
    FMul(FDiv(L, af),
         FDiv(FLog(FSub(One, confidence)), FLog(reliability)))

\* def test_time_exponential(N, AF), reading the globals L, confidence and
\* reliability
test_time_exponential(N, af, L, confidence, reliability) ==
    FMul(FDiv(L, FMul(F(N, 0), af)),
         FDiv(FLog(FSub(One, confidence)), FLog(reliability)))

\* Faulty variants of test_time_weibull: beta = 0 guarded by taking the exponent as
\* 0; the term (-ln(1 - confidence))^(1/beta) left out.
test_time_weibull_guarded(N, af, L, confidence, beta) ==
    IF beta = Zero
    THEN FDiv(FMul(FDiv(L, af), FPow(FNeg(FLog(FSub(One, confidence))), Zero)),
              FPow(F(N, 0), Zero))
    ELSE FDiv(FMul(FDiv(L, af),
                   FPow(FNeg(FLog(FSub(One, confidence))), FDiv(One, beta))),
              FPow(F(N, 0), FDiv(One, beta)))
test_time_weibull_no_term(N, af, L, confidence, beta) ==
    FDiv(FDiv(L, af), FPow(F(N, 0), FDiv(One, beta)))

\* def test_time_weibull(N, AF), reading the globals L, confidence and beta
WeibullTime(term, N, af, L, beta) ==
    IF IsErr(term) THEN term
    ELSE FDiv(FMul(FDiv(L, af), term), FPow(F(N, 0), FDiv(One, beta)))
test_time_weibull(N, af, L, confidence, beta) ==
    WeibullTime(FPow(FNeg(FLog(FSub(One, confidence))), FDiv(One, beta)),
                N, af, L, beta)

\* A faulty variant of CeilCol: the ceiling taken of the days as shown, rounded
CeilOfShownDays(ts) ==
    [N \in N_range |-> FCeil(FRound4(FDiv(ts[N], Hours24)))]

\* The three columns of a table, from the times ts[N] of its rows:
\* round(t, 4), round(t/24, 4) and math.ceil(t/24)
HoursCol(ts) == [N \in N_range |-> FRound4(ts[N])]
DaysCol(ts) == [N \in N_range |-> FRound4(FDiv(ts[N], Hours24))]
CeilCol(ts) == [N \in N_range |-> FCeil(FDiv(ts[N], Hours24))]

\* pd.DataFrame({"Sample Size": N_range, ...}) from the three columns
DataFrame(name, dist, hours, days, ceil) ==
    [model |-> name, dist |-> dist,
     rows |-> [N \in N_range |->
                  [N |-> N, hours |-> hours[N], days |-> days[N],
                   rounded_days |-> ceil[N]]]]

\* Building and showing one table from the times ts[N] of its rows.  The
\* list comprehensions are evaluated one after the other, so the exception
\* raised is the first one of the first column that has one.
ShowTable(dist, ts) ==
    LET hours == HoursCol(ts)
        days  == DaysCol(ts)
        ceil  == CeilCol(ts)
        e     == FirstErr(hours \o days \o ceil)
    IN  IF e # "none"
        THEN Stop(e) /\ UNCHANGED tables
        ELSE /\ tables' = Append(tables,
                              DataFrame(ModelNames[i], dist, hours, days, ceil))
             /\ UNCHANGED err

\* df_exp = pd.DataFrame({...}); st.dataframe(df_exp)
ShowExpTable ==
    /\ pc = "exp"
    /\ ShowTable("exp",
                 [N \in N_range |->
                     test_time_exponential(N, AF[i], params.L,
                                           params.confidence, params.reliability)])
    /\ IF err' = "none" THEN pc' = "weibull" ELSE TRUE
    /\ UNCHANGED <<params, AF, T, models_df, i, runs, first, fnvars>>

\* What a run has shown
Bundle(df, tbs) == [models_df |-> df, tables |-> tbs]

\* df_weibull = pd.DataFrame({...}); st.dataframe(df_weibull); the loop goes
\* on to the next model, and after the last one the script ends.
ShowWeibullTable ==
    /\ pc = "weibull"
    /\ ShowTable("weibull",
                 [N \in N_range |->
                     test_time_weibull(N, AF[i], params.L, params.confidence,
                                       params.beta)])
    /\ IF err' # "none" THEN UNCHANGED <<i, first>>
       ELSE IF i < 4 THEN pc' = "exp" /\ i' = i + 1 /\ UNCHANGED first
       ELSE /\ pc' = "done"
            /\ UNCHANGED i
            /\ first' = IF runs = 0 THEN <<Bundle(models_df, tables')>>
                        ELSE first
    /\ UNCHANGED <<params, AF, T, models_df, runs, fnvars>>

\* A faulty variant of Rerun: the tables of the run before stay on the page
RerunKeepingTables ==
    /\ pc \in {"done", "error"}
    /\ runs < MaxRuns
    /\ \E ed \in Edits : params' = [params EXCEPT ![ed[1]] = ed[2]]
    /\ pc' = "af"
    /\ AF' = <<>>
    /\ T' = <<>>
    /\ models_df' = <<>>
    /\ i' = 0
    /\ err' = "none"
    /\ runs' = runs + 1
    /\ UNCHANGED <<tables, first, fnvars>>

\* The user edits one widget: the script is run again from the top, in a
\* fresh namespace and on a cleared page.
Rerun ==
    /\ pc \in {"done", "error"}
    /\ runs < MaxRuns
    /\ \E ed \in Edits : params' = [params EXCEPT ![ed[1]] = ed[2]]
    /\ pc' = "af"
    /\ AF' = <<>>
    /\ T' = <<>>
    /\ models_df' = <<>>
    /\ tables' = <<>>
    /\ i' = 0
    /\ err' = "none"
    /\ runs' = runs + 1
    /\ UNCHANGED <<first, fnvars>>

\* The script's first run, with the widgets at their defaults
Start ==
    /\ params = Defaults
    /\ pc = "af"
    /\ AF = <<>>
    /\ T = <<>>
    /\ models_df = <<>>
    /\ tables = <<>>
    /\ i = 0
    /\ err = "none"
    /\ runs = 0
    /\ first = <<>>

Init ==
    /\ Start
    /\ fnArgs = [AF |-> One, L |-> Defaults.L,
                 confidence |-> Defaults.confidence,
                 reliability |-> Defaults.reliability, beta |-> Defaults.beta]
    /\ expCol = <<>>
    /\ weiCol = <<>>

Next ==
    \/ ComputeAF
    \/ ComputeTestTime
    \/ ShowSummary
    \/ ShowExpTable
    \/ ShowWeibullTable
    \/ Rerun

Spec == Init /\ [][Next]_vars

(***************************************************************************)
(* The two test-time functions called alone, over arguments the widgets    *)
(* do not let through as well.                                             *)
(***************************************************************************)
\* [test_time_exponential(n, AF) for n in N_range]
CallExponential ==
    /\ expCol = <<>>
    /\ expCol' = [N \in N_range |->
                     test_time_exponential(N, fnArgs.AF, fnArgs.L,
                                           fnArgs.confidence, fnArgs.reliability)]
    /\ UNCHANGED <<params, pc, AF, T, models_df, tables, i, err, runs, first,
                   fnArgs, weiCol>>

\* [test_time_weibull(n, AF) for n in N_range]
CallWeibull ==
    /\ weiCol = <<>>
    /\ weiCol' = [N \in N_range |->
                     test_time_weibull(N, fnArgs.AF, fnArgs.L,
                                       fnArgs.confidence, fnArgs.beta)]
    /\ UNCHANGED <<params, pc, AF, T, models_df, tables, i, err, runs, first,
                   fnArgs, expCol>>

InitFn ==
    /\ Start
    /\ fnArgs \in FnInputs
    /\ expCol = <<>>
    /\ weiCol = <<>>

NextFn ==
    \/ CallExponential
    \/ CallWeibull

SpecFn == InitFn /\ [][NextFn]_vars
(***************************************************************************)
(* Properties.                                                             *)
(***************************************************************************)
FLe(a, b) == IsNum(a) /\ IsNum(b) /\ (a = b \/ FLt(a, b))
PositiveFinite(a) == a.k = "fin" /\ a.m > 0
FAbs(a) == IF FSign(a) < 0 THEN FNeg(a) ELSE a

\* The constraints of the ParameterSet's fields
Valid(p) ==
    /\ FPos(p.RH_use) /\ FLe(p.RH_use, F(100, 0))
    /\ FPos(p.RH_stress) /\ FLe(p.RH_stress, F(100, 0))
    /\ FPos(p.Ea)
    /\ FPos(T_use_K(p)) /\ FPos(T_stress_K(p))
    /\ \A d \in {p.D_uv, p.D_tc, p.D_mech} : FPos(d) /\ FLe(d, One)
    /\ FLe(F(7, -1), p.confidence) /\ FLe(p.confidence, F(99, -2))
    /\ FLe(F(7, -1), p.reliability) /\ FLe(p.reliability, F(99, -2))
    /\ p.beta # Zero
    /\ FPos(p.L)

\* Magnitudes for which no intermediate value leaves the range of a double
Practical(p) ==
    /\ \A t \in {p.T_use_C, p.T_stress_C} :
          FLe(F(-100, 0), t) /\ FLe(t, F(1000, 0))
    /\ FLe(p.Ea, F(2, 0))
    /\ FLe(One, p.RH_use) /\ FLe(One, p.RH_stress)
    /\ FLe(FAbs(p.n), F(10, 0)) /\ FLe(FAbs(p.m), F(10, 0))
    /\ \A d \in {p.D_uv, p.D_tc, p.D_mech} : FLe(F(1, -2), d)
    /\ FLe(F(1, -1), FAbs(p.beta)) /\ FLe(FAbs(p.beta), F(10, 0))
    /\ FLe(One, p.L) /\ FLe(p.L, F(1, 9))

\* Everything the run has produced so far is positive and finite: the AF
\* values, the point test times, and in the tables the times before they
\* are rounded for display (a time is positive exactly when the ceiling of
\* its days is at least 1; the shown hours and days are rounded to four
\* decimals and may show 0.0).
AllPositive ==
    /\ pc # "error"
    /\ \A j \in DOMAIN AF : PositiveFinite(AF[j])
    /\ \A j \in DOMAIN T : PositiveFinite(T[j])
    /\ \A j \in DOMAIN models_df :
          PositiveFinite(models_df[j].days) /\ FLe(One, models_df[j].rounded_days)
    /\ \A t \in DOMAIN tables : \A N \in N_range :
          /\ tables[t].rows[N].hours.k = "fin" /\ tables[t].rows[N].hours.m >= 0
          /\ tables[t].rows[N].days.k = "fin" /\ tables[t].rows[N].days.m >= 0
          /\ FLe(One, tables[t].rows[N].rounded_days)

\* C1 as stated: for every valid ParameterSet the run raises no error, all
\* four AF values are strictly positive and all test times are strictly
\* positive and finite.
C1_AllValidPositive == Valid(params) => AllPositive

\* C1, amended: for every valid ParameterSet whose values are of practical
\* magnitude (no overflow or underflow of a double), the run raises no
\* error, the four AF values and the four point test times are strictly
\* positive and finite, and so is every table time before display rounding.
C1_PracticalPositive == Valid(params) /\ Practical(params) => AllPositive

C1_Witness ==
    /\ pc = "done"
    /\ Valid(params) /\ Practical(params)
    /\ params # Defaults

\* C3: no partial results: a run that ends in an error has shown neither the
\* summary table nor any sample-size table.
C3_NoPartialResults == pc = "error" => models_df = <<>> /\ tables = <<>>

\* C4: whenever one of the four AF values is zero or negative, the run fails
\* and no point test time or table is produced from it.
C4_NonPositiveAFRejected ==
    (\E j \in DOMAIN AF : ~FPos(AF[j]))
        => T = <<>> /\ models_df = <<>> /\ tables = <<>>

\* C7: with RH_use = 0 or T_use_K = 0 the run ends in an error before any
\* AF, point test time or table is produced, whatever the other parameters.
C7_ZeroHumidityOrKelvinFails ==
    (params.RH_use = Zero \/ T_use_K(params) = Zero)
        => /\ pc \in {"af", "error"}
           /\ AF = <<>> /\ T = <<>> /\ models_df = <<>> /\ tables = <<>>

C7_Witness ==
    /\ pc = "error"
    /\ params.RH_use = Zero
    /\ FLe(params.n, Zero)

\* The table the loop shows in position t: the exponential table of model
\* (t + 1) \div 2 for odd t, its Weibull table for even t.
ModelOf(t) == (t + 1) \div 2
TimeOf(t, N) ==
    IF t % 2 = 1
    THEN test_time_exponential(N, AF[ModelOf(t)], params.L, params.confidence,
                               params.reliability)
    ELSE test_time_weibull(N, AF[ModelOf(t)], params.L, params.confidence,
                           params.beta)

\* The structure of the tables shown so far: exponential then Weibull for
\* each model in order, one row per N = 1..30 in ascending order.
TablesInOrder ==
    /\ Len(tables) <= 8
    /\ pc = "done" => Len(tables) = 8
    /\ \A t \in DOMAIN tables :
          /\ tables[t].model = ModelNames[ModelOf(t)]
          /\ tables[t].dist = (IF t % 2 = 1 THEN "exp" ELSE "weibull")
          /\ DOMAIN tables[t].rows = N_range
          /\ \A N \in N_range : tables[t].rows[N].N = N

\* C9 as stated: 8 tables in order, and in every row days = hours / 24 and
\* rounded_days = ceiling(days).
C9_DaysFromShownHours ==
    /\ TablesInOrder
    /\ \A t \in DOMAIN tables : \A N \in N_range :
          /\ tables[t].rows[N].days = FDiv(tables[t].rows[N].hours, Hours24)
          /\ tables[t].rows[N].rounded_days = FCeil(tables[t].rows[N].days)

\* A row holds the time tm rounded, its days rounded, and the ceiling of
\* its days before rounding
RowFromDays(row, days) ==
    /\ row.days = FRound4(days)
    /\ row.rounded_days = FCeil(days)
RowFromTime(row, tm) ==
    /\ row.hours = FRound4(tm)
    /\ RowFromDays(row, FDiv(tm, Hours24))

\* C9, amended: 8 tables in order (per model the exponential, then the
\* Weibull one, each with one row per N = 1..30 ascending), and in every row,
\* with t the time of that row's N and that model's AF: hours = round(t, 4),
\* days = round(t / 24, 4) and rounded_days = ceiling(t / 24), the ceiling
\* of the days before rounding.
C9_RowsFromTime ==
    /\ TablesInOrder
    /\ \A t \in DOMAIN tables : \A N \in N_range :
          RowFromTime(tables[t].rows[N], TimeOf(t, N))

C9_Witness ==
    /\ pc = "done"
    /\ Len(tables) = 8
    /\ \E N \in N_range :
          tables[8].rows[N].rounded_days # FCeil(tables[8].rows[N].days)

\* C10: the bundle a run shows is determined by its ParameterSet alone,
\* whatever ran before: every completed run with the default ParameterSet
\* shows what the first run showed; and building the tables leaves the
\* ParameterSet (n, L, confidence, reliability, beta, ...) unchanged.
C10_Idempotent ==
    /\ [](pc = "done" /\ params = Defaults /\ first # <<>>
             => Bundle(models_df, tables) = first[1])
    /\ [][(pc = "exp" \/ pc = "weibull") => params' = params]_vars

C10_Witness ==
    /\ pc = "done"
    /\ runs = 2
    /\ params = Defaults
    /\ first # <<>>
\* --- the test-time functions called alone (SpecFn) ---
InUnit(a) == FPos(a) /\ FLt(a, One)
FnValid ==
    /\ PositiveFinite(fnArgs.AF)
    /\ PositiveFinite(fnArgs.L)
    /\ InUnit(fnArgs.confidence)
    /\ InUnit(fnArgs.reliability)
StrictlyDecreasing(col) ==
    \A N1, N2 \in N_range : N1 < N2 => FLt(col[N2], col[N1])
StrictlyIncreasing(col) ==
    \A N1, N2 \in N_range : N1 < N2 => FLt(col[N1], col[N2])

C5_ErrorOutsideUnitInterval ==
    /\ expCol # <<>>
    /\ PositiveFinite(fnArgs.AF) /\ PositiveFinite(fnArgs.L)
    /\ ~InUnit(fnArgs.confidence) \/ ~InUnit(fnArgs.reliability)
    => \A N \in N_range : IsErr(expCol[N])

\* C6: with beta = 0, test_time_weibull raises an error for every N, every AF
\* and every confidence: no row of a Weibull table is built.
C6_BetaZeroRaises ==
    weiCol # <<>> /\ fnArgs.beta = Zero
        => \A N \in N_range : IsErr(weiCol[N])

C6_Witness ==
    /\ weiCol # <<>>
    /\ fnArgs.beta = Zero
    /\ InUnit(fnArgs.confidence)
    /\ PositiveFinite(fnArgs.AF)

\* The two times of the same N are numbers and equal
SameTime(N) == IsNum(expCol[N]) /\ IsNum(weiCol[N]) /\ expCol[N] = weiCol[N]
BetaOneCalled ==
    /\ FnValid
    /\ fnArgs.beta = One
    /\ expCol # <<>>
    /\ weiCol # <<>>

\* C8 as stated: at beta = 1 the Weibull and the exponential time are equal
\* only when ln(reliability) = -(-ln(1 - confidence)).
C8_EqualOnlyAtLnConfidence ==
    BetaOneCalled
        => \A N \in N_range :
              SameTime(N) => FLog(fnArgs.reliability)
                                = FNeg(FNeg(FLog(FSub(One, fnArgs.confidence))))

\* C8, amended: at beta = 1 the Weibull and the exponential time are equal
\* only when ln(reliability) = -1.
C8_EqualOnlyAtLnMinusOne ==
    BetaOneCalled
        => \A N \in N_range :
              SameTime(N) => FLog(fnArgs.reliability) = FNeg(One)

C8_Witness ==
    /\ BetaOneCalled
    /\ \E N \in N_range : SameTime(N)
=============================================================================
